---- MODULE Spec2Model ----
(***************************************************************************)
(* Model of include/mxnet/operator.h: the defaults of OperatorProperty and *)
(* the template helper OperatorProperty::BackwardInputs, whose flattening  *)
(* loops run one iteration per step.  Vector positions are 0-based as in   *)
(* the C++ code; a TLA+ sequence s holds the vector element k at s[k + 1]. *)
(***************************************************************************)
EXTENDS Integers, Sequences, FiniteSets, TLC

VARIABLES
  pc,            \* position of the running call
  method,        \* the method of OperatorProperty being called
  kind,          \* the concrete operator kind (which virtuals it overrides)
  in_data,       \* BackwardInputs: argument in_data   (vector<T>)
  out_data,      \* BackwardInputs: argument out_data  (vector<T>)
  out_grad,      \* BackwardInputs: argument out_grad  (vector<T>)
  i,             \* BackwardInputs: loop variable i
  cnt,           \* BackwardInputs: local cnt
  all_vec,       \* BackwardInputs: local all_vec
  in_data_idx,   \* BackwardInputs: local in_data_idx
  out_data_idx,  \* BackwardInputs: local out_data_idx
  out_grad_idx,  \* BackwardInputs: local out_grad_idx
  dep_args,      \* the parameters DeclareBackwardDependency was entered with
  ret_idx,       \* BackwardInputs: local ret_idx
  ret,           \* BackwardInputs: local ret, the returned vector
  oob,           \* TRUE once a vector was read at a position it does not have
  args,          \* arguments of a call of one of the other methods
  result         \* what that call returned

vars == <<pc, method, kind, in_data, out_data, out_grad, i, cnt, all_vec,
          in_data_idx, out_data_idx, out_grad_idx, dep_args, ret_idx, ret,
          oob, args, result>>

-----------------------------------------------------------------------------
(* Bounds of the model *)

\* longest in_data handed to BackwardInputs
MaxIn == 2
\* longest out_data handed to BackwardInputs
MaxOut == 2
\* longest out_grad handed to BackwardInputs
MaxGrad == 1
\* longest list an overriding DeclareBackwardDependency returns
MaxDep == 2
\* largest index in the lists handed directly to the default methods
MaxIdx == 1
\* longest list handed directly to DeclareBackwardDependency
MaxArgLen == 2
\* longest list handed directly to the *InplaceOption methods
MaxSlot == 1
\* largest NumReturns() of an overriding kind
MaxReturns == 3
\* largest dimension size of a shape
MaxDim == 2

\* The elements of type T; Values[k] is the k-th element name.
Values == <<"a", "b", "c", "d">>
ValueSet == {Values[k] : k \in 1..Len(Values)}
\* What a read outside a vector<T> may yield besides one of the elements.
Junk == "junk"

SeqsUpTo(S, n) == UNION {[1..k -> S] : k \in 0..n}

\* Position of the first occurrence of v in s, Len(s) + 1 when there is none.
FirstPos(s, v) ==
  IF \E p \in 1..Len(s) : s[p] = v
     THEN CHOOSE p \in 1..Len(s) : s[p] = v /\ \A q \in 1..(p - 1) : s[q] # v
     ELSE Len(s) + 1

\* Inputs are enumerated up to renaming of the elements of T: the elements
\* occur for the first time in the order a, b, c, d.
Canonical(s) ==
  \A k \in 2..Len(Values) :
     FirstPos(s, Values[k]) <= Len(s)
        => FirstPos(s, Values[k - 1]) < FirstPos(s, Values[k])

-----------------------------------------------------------------------------
(* Operator kinds: the virtual functions a concrete OperatorProperty overrides *)

Kind(c, n) == [cls |-> c, n |-> n]

\* no override at all: every default of operator.h
BaseKind == Kind("OperatorProperty", 0)
\* overrides NumReturns() only, to return n
NumReturnsKinds == {Kind("NumReturnsOverride", n) : n \in 0..MaxReturns}
\* the Dropout of the comment on NumVisibleReturns: returns [data, mask]
DropoutKind == Kind("Dropout", 0)
\* overrides DeclareBackwardDependency as the comment on it shows
DocumentedKind == Kind("DocumentedDependency", 0)
\* overrides DeclareBackwardDependency to return some list of the indices given
SubsetKind == Kind("DeclaredSubset", 0)

ReturnKinds == {BaseKind, DropoutKind} \cup NumReturnsKinds
DependencyKinds == {BaseKind, DocumentedKind, SubsetKind}

-----------------------------------------------------------------------------
(* The defaults of OperatorProperty *)

ListArguments == <<"data">>

\* a default naming the hidden second return of the Dropout example as well
ListReturns_WithMask == <<"output", "mask">>

ListReturns == <<"output">>

NumReturns(k) ==
  CASE k.cls = "NumReturnsOverride" -> k.n
    [] k.cls = "Dropout" -> 2
    [] OTHER -> 1

\* a default that returns the constant 1 instead of calling NumReturns()
NumVisibleReturns_Constant(k) ==
  IF k.cls = "Dropout" THEN 1 ELSE 1

\* virtual dispatch: Dropout overrides it, every other kind runs the default
\* body "return NumReturns();"
NumVisibleReturns(k) ==
  IF k.cls = "Dropout" THEN 1 ELSE NumReturns(k)

\* s without the later occurrences of an entry
Dedup(s) ==
  LET F[k \in 0..Len(s)] ==
        IF k = 0 THEN << >>
        ELSE IF \E q \in 1..(k - 1) : s[q] = s[k] THEN F[k - 1]
             ELSE Append(F[k - 1], s[k])
  IN  F[Len(s)]

\* a default that returns the union as a set, every index once
DeclareBackwardDependency_Dedup(og, id, od) == Dedup((og \o id) \o od)

\* std::vector<int> ret = out_grad; ret.insert(end, in_data); ret.insert(end, out_data)
DeclareBackwardDependency(og, id, od) == (og \o id) \o od

\* a default that declares what the comment's example declares
ForwardInplaceOption_Example(id, od) ==
  IF Len(id) > 0 /\ Len(od) > 0 THEN << <<od[1], id[1]>> >> ELSE << >>

ForwardInplaceOption(id, od) == << >>

BackwardInplaceOption(og, id, od, ig) == << >>

-----------------------------------------------------------------------------
(* InferShape of a two-argument kind ("data", "weight") with one return:   *)
(* data = (batch, feat), weight = (feat, hidden), output = (batch, hidden). *)
(* A shape is << >> (unknown, ndim() == 0) or a pair of sizes, 0 = unknown. *)

Shapes == {<< >>} \cup [1..2 -> 0..MaxDim]

FullyConnectedKinds == {Kind("FullyConnected", h) : h \in 1..MaxDim}

Dim(s, j) == IF Len(s) = 0 THEN 0 ELSE s[j]

Outcome(ok, thrown, ins, outs) ==
  [ok |-> ok, thrown |-> thrown, in_shape |-> ins, out_shape |-> outs]

\* an InferShape that derives everything from data and hidden and
\* overwrites what it is given without comparing
InferShape_Overwrite(in_shape, out_shape, hidden) ==
  IF Dim(in_shape[1], 1) = 0 \/ Dim(in_shape[1], 2) = 0
     THEN Outcome(FALSE, FALSE, in_shape, out_shape)
     ELSE Outcome(TRUE, FALSE,
                  <<in_shape[1], <<in_shape[1][2], hidden>>>>,
                  << <<in_shape[1][1], hidden>> >>)

InferShape(in_shape, out_shape, hidden) ==
  LET data   == in_shape[1]
      weight == in_shape[2]
      out    == out_shape[1]
      batch  == {Dim(data, 1), Dim(out, 1)} \ {0}
      feat   == {Dim(data, 2), Dim(weight, 1)} \ {0}
      hid    == {hidden, Dim(weight, 2), Dim(out, 2)} \ {0}
  IN  IF Cardinality(batch) > 1 \/ Cardinality(feat) > 1 \/ Cardinality(hid) > 1
         THEN Outcome(FALSE, TRUE, in_shape, out_shape)
      ELSE IF batch = {} \/ feat = {}
         THEN Outcome(FALSE, FALSE, in_shape, out_shape)
      ELSE LET b == CHOOSE x \in batch : TRUE
               f == CHOOSE x \in feat : TRUE
           IN  Outcome(TRUE, FALSE, << <<b, f>>, <<f, hidden>> >>,
                       << <<b, hidden>> >>)

-----------------------------------------------------------------------------
(* BackwardInputs *)

\* v[k] of the C++ code, for a position k the vector has
At(v, k) == v[k + 1]

InRange(v, k) == k >= 0 /\ k < Len(v)

\* a loop body that pushes cnt and never increments it
NextCnt_Stuck(c) == c

\* cnt++ : the value pushed is the old cnt
NextCnt(c) == c + 1

\* The element the third loop pushes for out_grad position k (line 327).
GradElem(od, og, k) == At(od, k)

\* The vector GradElem reads, whose size decides whether the read is inside.
GradSource(od, og) == od

\* The argument list of the call at lines 329-330, by parameter name of
\* DeclareBackwardDependency(out_grad, in_data, out_data).
DeclareArgs(idIdx, odIdx, ogIdx) ==
  [out_grad |-> idIdx, in_data |-> odIdx, out_data |-> ogIdx]

\* ret.push_back(all_vec[ret_idx[i]]) for an index all_vec has
SelectElem(av, idx) == At(av, idx)

Idle ==
  /\ pc = "idle" /\ method = "none" /\ kind = BaseKind
  /\ in_data = << >> /\ out_data = << >> /\ out_grad = << >>
  /\ i = 0 /\ cnt = 0 /\ all_vec = << >>
  /\ in_data_idx = << >> /\ out_data_idx = << >> /\ out_grad_idx = << >>
  /\ dep_args = DeclareArgs(<< >>, << >>, << >>)
  /\ ret_idx = << >> /\ ret = << >> /\ oob = FALSE
  /\ args = << >> /\ result = << >>

Init == Idle

\* A caller enters BackwardInputs(in_data, out_data, out_grad) on some kind.
CallBackwardInputs ==
  /\ pc = "idle"
  /\ \E k \in DependencyKinds, id \in SeqsUpTo(ValueSet, MaxIn),
        od \in SeqsUpTo(ValueSet, MaxOut), og \in SeqsUpTo(ValueSet, MaxGrad) :
        /\ Canonical((id \o od) \o og)
        /\ kind' = k
        /\ in_data' = id /\ out_data' = od /\ out_grad' = og
  /\ method' = "BackwardInputs"
  /\ pc' = "in_data_loop"
  /\ UNCHANGED <<i, cnt, all_vec, in_data_idx, out_data_idx, out_grad_idx,
                 dep_args, ret_idx, ret, oob, args, result>>

\* for (i = 0; i < in_data.size(); ++i) { in_data_idx.push_back(cnt++); all_vec.push_back(in_data[i]); }
InDataLoop ==
  /\ pc = "in_data_loop"
  /\ IF i < Len(in_data)
        THEN /\ in_data_idx' = Append(in_data_idx, cnt)
             /\ cnt' = NextCnt(cnt)
             /\ all_vec' = Append(all_vec, At(in_data, i))
             /\ i' = i + 1
             /\ pc' = pc
        ELSE /\ i' = 0
             /\ pc' = "out_data_loop"
             /\ UNCHANGED <<in_data_idx, cnt, all_vec>>
  /\ UNCHANGED <<method, kind, in_data, out_data, out_grad, out_data_idx,
                 out_grad_idx, dep_args, ret_idx, ret, oob, args, result>>

\* for (i = 0; i < out_data.size(); ++i) { out_data_idx.push_back(cnt++); all_vec.push_back(out_data[i]); }
OutDataLoop ==
  /\ pc = "out_data_loop"
  /\ IF i < Len(out_data)
        THEN /\ out_data_idx' = Append(out_data_idx, cnt)
             /\ cnt' = NextCnt(cnt)
             /\ all_vec' = Append(all_vec, At(out_data, i))
             /\ i' = i + 1
             /\ pc' = pc
        ELSE /\ i' = 0
             /\ pc' = "out_grad_loop"
             /\ UNCHANGED <<out_data_idx, cnt, all_vec>>
  /\ UNCHANGED <<method, kind, in_data, out_data, out_grad, in_data_idx,
                 out_grad_idx, dep_args, ret_idx, ret, oob, args, result>>

\* for (i = 0; i < out_grad.size(); ++i) { out_grad_idx.push_back(cnt++); all_vec.push_back(out_data[i]); }
\* The read is unchecked (operator[]): outside the vector it yields any value
\* of T or a value that is none of the caller's, or the process faults.
OutGradLoop ==
  /\ pc = "out_grad_loop"
  /\ IF i < Len(out_grad)
        THEN IF InRange(GradSource(out_data, out_grad), i)
                THEN /\ out_grad_idx' = Append(out_grad_idx, cnt)
                     /\ cnt' = NextCnt(cnt)
                     /\ all_vec' = Append(all_vec, GradElem(out_data, out_grad, i))
                     /\ i' = i + 1
                     /\ pc' = pc
                     /\ oob' = oob
                ELSE /\ oob' = TRUE
                     /\ \/ /\ out_grad_idx' = Append(out_grad_idx, cnt)
                           /\ cnt' = NextCnt(cnt)
                           /\ \E x \in ValueSet \cup {Junk} :
                                 all_vec' = Append(all_vec, x)
                           /\ i' = i + 1
                           /\ pc' = pc
                        \/ /\ pc' = "crashed"
                           /\ UNCHANGED <<out_grad_idx, cnt, all_vec, i>>
        ELSE /\ i' = 0
             /\ pc' = "declare"
             /\ UNCHANGED <<out_grad_idx, cnt, all_vec, oob>>
  /\ UNCHANGED <<method, kind, in_data, out_data, out_grad, in_data_idx,
                 out_data_idx, dep_args, ret_idx, ret, args, result>>

\* What an unchecked read of a vector<int> yields: the element, or outside
\* the vector any int; Len(av) stands for every int that is no position of
\* all_vec.
ReadIdx(v, k, av) == IF InRange(v, k) THEN {At(v, k)} ELSE 0..Len(av)

\* The override of the comment at lines 229-234:
\*   return {out_grad[0], in_data[0], in_data[1]};
\* as the set of vectors it may return (one, unless it reads outside).
DocumentedDependency(og, id, od, av) ==
  {<<x, y, z>> : x \in ReadIdx(og, 0, av), y \in ReadIdx(id, 0, av),
                 z \in ReadIdx(id, 1, av)}

DocumentedInside(og, id, od) == InRange(og, 0) /\ InRange(id, 1)

\* The lists an override may return that declares a subset of what it is given.
DeclaredSubsets(og, id, od) ==
  LET given == {((og \o id) \o od)[p] : p \in 1..Len((og \o id) \o od)}
  IN  SeqsUpTo(given, MaxDep)

\* ret_idx = this->DeclareBackwardDependency(in_data_idx, out_data_idx, out_grad_idx)
Declare ==
  /\ pc = "declare"
  /\ dep_args' = DeclareArgs(in_data_idx, out_data_idx, out_grad_idx)
  /\ LET a == DeclareArgs(in_data_idx, out_data_idx, out_grad_idx)
     IN  CASE kind = DocumentedKind ->
                 /\ oob' = (oob \/ ~DocumentedInside(a.out_grad, a.in_data, a.out_data))
                 /\ \/ /\ ret_idx' \in DocumentedDependency(a.out_grad, a.in_data,
                                                            a.out_data, all_vec)
                       /\ pc' = "select"
                    \/ /\ ~DocumentedInside(a.out_grad, a.in_data, a.out_data)
                       /\ pc' = "crashed"
                       /\ ret_idx' = ret_idx
           [] kind = SubsetKind ->
                 /\ ret_idx' \in DeclaredSubsets(a.out_grad, a.in_data, a.out_data)
                 /\ pc' = "select"
                 /\ oob' = oob
           [] OTHER ->
                 /\ ret_idx' = DeclareBackwardDependency(a.out_grad, a.in_data,
                                                         a.out_data)
                 /\ pc' = "select"
                 /\ oob' = oob
  /\ UNCHANGED <<method, kind, in_data, out_data, out_grad, i, cnt, all_vec,
                 in_data_idx, out_data_idx, out_grad_idx, ret, args, result>>

\* The vectors the loop
\*   for (i = 0; i < ret_idx.size(); ++i) ret.push_back(all_vec[ret_idx[i]]);
\* may build: position k holds all_vec[ret_idx[k]] when all_vec has that
\* index, and otherwise whatever the unchecked read yields.
Selections(av, idxs) ==
  LET outside == {k \in 1..Len(idxs) : ~InRange(av, idxs[k])}
  IN  {[k \in 1..Len(idxs) |->
          IF k \in outside THEN read[k] ELSE SelectElem(av, idxs[k])] :
       read \in [outside -> ValueSet \cup {Junk}]}

SelectInside(av, idxs) == \A k \in 1..Len(idxs) : InRange(av, idxs[k])

\* std::vector<T> ret; the selecting loop; return ret;
Select ==
  /\ pc = "select"
  /\ oob' = (oob \/ ~SelectInside(all_vec, ret_idx))
  /\ \/ /\ ret' \in Selections(all_vec, ret_idx)
        /\ pc' = "done"
     \/ /\ ~SelectInside(all_vec, ret_idx)
        /\ pc' = "crashed"
        /\ ret' = ret
  /\ UNCHANGED <<method, kind, in_data, out_data, out_grad, i, cnt, all_vec,
                 in_data_idx, out_data_idx, out_grad_idx, dep_args, ret_idx,
                 args, result>>

-----------------------------------------------------------------------------
(* Direct calls of the other methods *)

IdxLists(n) == SeqsUpTo(0..MaxIdx, n)

\* A call that runs no loop: it returns r at once.
Returns(m, k, a, r) ==
  /\ method' = m /\ kind' = k /\ args' = a /\ result' = r
  /\ pc' = "done"
  /\ UNCHANGED <<in_data, out_data, out_grad, i, cnt, all_vec, in_data_idx,
                 out_data_idx, out_grad_idx, dep_args, ret_idx, ret, oob>>

CallListArguments ==
  /\ pc = "idle"
  /\ Returns("ListArguments", BaseKind, << >>, ListArguments)

CallListReturns ==
  /\ pc = "idle"
  /\ Returns("ListReturns", BaseKind, << >>, ListReturns)

CallNumReturns ==
  /\ pc = "idle"
  /\ \E k \in ReturnKinds : Returns("NumReturns", k, << >>, NumReturns(k))

CallNumVisibleReturns ==
  /\ pc = "idle"
  /\ \E k \in ReturnKinds :
        Returns("NumVisibleReturns", k, << >>, NumVisibleReturns(k))

CallDeclareBackwardDependency ==
  /\ pc = "idle"
  /\ \E og \in IdxLists(MaxArgLen), id \in IdxLists(MaxArgLen),
        od \in IdxLists(MaxArgLen) :
        Returns("DeclareBackwardDependency", BaseKind,
                [out_grad |-> og, in_data |-> id, out_data |-> od],
                DeclareBackwardDependency(og, id, od))

CallForwardInplaceOption ==
  /\ pc = "idle"
  /\ \E id \in IdxLists(MaxSlot), od \in IdxLists(MaxSlot) :
        Returns("ForwardInplaceOption", BaseKind,
                [in_data |-> id, out_data |-> od],
                ForwardInplaceOption(id, od))

CallBackwardInplaceOption ==
  /\ pc = "idle"
  /\ \E og \in IdxLists(MaxSlot), id \in IdxLists(MaxSlot),
        od \in IdxLists(MaxSlot), ig \in IdxLists(MaxSlot) :
        Returns("BackwardInplaceOption", BaseKind,
                [out_grad |-> og, in_data |-> id, out_data |-> od, in_grad |-> ig],
                BackwardInplaceOption(og, id, od, ig))

CallInferShape ==
  /\ pc = "idle"
  /\ \E k \in FullyConnectedKinds, data \in Shapes, weight \in Shapes,
        out \in Shapes :
        Returns("InferShape", k,
                [in_shape |-> <<data, weight>>, out_shape |-> <<out>>],
                InferShape(<<data, weight>>, <<out>>, k.n))

Next ==
  \/ CallBackwardInputs
  \/ InDataLoop
  \/ OutDataLoop
  \/ OutGradLoop
  \/ Declare
  \/ Select
  \/ CallListArguments
  \/ CallListReturns
  \/ CallNumReturns
  \/ CallNumVisibleReturns
  \/ CallDeclareBackwardDependency
  \/ CallForwardInplaceOption
  \/ CallBackwardInplaceOption
  \/ CallInferShape

Spec == Init /\ [][Next]_vars

-----------------------------------------------------------------------------
(* Properties *)

BackwardInputsReturned == method = "BackwardInputs" /\ pc = "done"

\* Number of entries of the flattened vector of the running call.
FlatLen == Len(in_data) + Len(out_data) + Len(out_grad)

\* The caller's element a flattened index stands for: in_data first, then
\* out_data, then out_grad, as the index lists are numbered.
Original(j) ==
  IF j < Len(in_data) THEN At(in_data, j)
  ELSE IF j < Len(in_data) + Len(out_data) THEN At(out_data, j - Len(in_data))
  ELSE At(out_grad, j - Len(in_data) - Len(out_data))

Elems(s) == {s[k] : k \in 1..Len(s)}

\* C1: BackwardInputs returns, for every declared dependency list, the
\* caller's elements at the declared flattened indices, each the original
\* element of the role its index belongs to (stated for the calls in which
\* no vector is read outside its size); and with in_data = [a,b],
\* out_data = [c], out_grad = [d] and the declared indices {0, 2} it
\* returns [a, d].
C1_SelectsOriginalElements ==
  (BackwardInputsReturned /\ ~oob) =>
     /\ Len(ret) = Len(ret_idx)
     /\ \A k \in 1..Len(ret_idx) :
           InRange(all_vec, ret_idx[k]) => ret[k] = Original(ret_idx[k])
     /\ (/\ in_data = <<"a", "b">> /\ out_data = <<"c">> /\ out_grad = <<"d">>
         /\ ret_idx = <<0, 2>>) => ret = <<"a", "d">>

\* C2: the default DeclareBackwardDependency returns out_grad ++ in_data ++
\* out_data: every entry of each list, in order, with its multiplicity, and
\* nothing else.
C2_DefaultDependencyIsConcatenation ==
  (method = "DeclareBackwardDependency" /\ pc = "done") =>
     LET og == args.out_grad
         id == args.in_data
         od == args.out_data
     IN  /\ Len(result) = Len(og) + Len(id) + Len(od)
         /\ \A k \in 1..Len(og) : result[k] = og[k]
         /\ \A k \in 1..Len(id) : result[Len(og) + k] = id[k]
         /\ \A k \in 1..Len(od) : result[Len(og) + Len(id) + k] = od[k]

\* C2 witness: a call whose lists repeat an index, within a list and across
\* lists, has returned.
C2_Witness ==
  /\ method = "DeclareBackwardDependency" /\ pc = "done"
  /\ args.out_grad = <<1, 1>> /\ args.in_data = <<1, 0>> /\ args.out_data = <<0>>
  /\ result = <<1, 1, 1, 0, 0>>

\* C3: without an override of DeclareBackwardDependency and with
\* |out_grad| <= |out_data|, what BackwardInputs returns contains every
\* element of in_data, of out_data and of out_grad.
C3_AllVariablesValid ==
  (BackwardInputsReturned /\ kind = BaseKind /\ Len(out_grad) <= Len(out_data)) =>
     (Elems(in_data) \cup Elems(out_data) \cup Elems(out_grad)) \subseteq Elems(ret)

\* C4: the default ForwardInplaceOption and BackwardInplaceOption return the
\* empty sequence of (output, input) pairs for every input.
C4_DefaultInplaceOptionsEmpty ==
  (pc = "done" /\ method \in {"ForwardInplaceOption", "BackwardInplaceOption"}) =>
     result = << >>

\* C4 witness: the default ForwardInplaceOption has returned for non-empty
\* index lists.
C4_Witness ==
  /\ pc = "done" /\ method = "ForwardInplaceOption"
  /\ args.in_data = <<0>> /\ args.out_data = <<1>>
  /\ result = << >>

\* C5: NumVisibleReturns() <= NumReturns(); a kind that overrides only
\* NumReturns() to n has NumVisibleReturns() = n; with neither overridden
\* both are 1.
C5_VisibleReturnsAtMostReturns ==
  /\ (pc = "done" /\ method = "NumVisibleReturns") =>
        /\ result <= NumReturns(kind)
        /\ kind.cls = "NumReturnsOverride" => result = kind.n
        /\ kind = BaseKind => result = 1
  /\ (pc = "done" /\ method = "NumReturns" /\ kind = BaseKind) => result = 1

\* C5 witness: NumVisibleReturns() of a kind overriding NumReturns() to 3.
C5_Witness ==
  /\ pc = "done" /\ method = "NumVisibleReturns"
  /\ kind = Kind("NumReturnsOverride", 3) /\ result = 3

\* C6: the default ListArguments() is ["data"], the default ListReturns() is
\* ["output"], and the latter has NumReturns() = 1 entries.
C6_DefaultNames ==
  /\ (pc = "done" /\ method = "ListArguments") => result = <<"data">>
  /\ (pc = "done" /\ method = "ListReturns") =>
        /\ result = <<"output">>
        /\ Len(result) = NumReturns(BaseKind)

\* C6 witness: the default ListReturns() has returned its one name.
C6_Witness ==
  pc = "done" /\ method = "ListReturns" /\ Len(result) = 1

\* Two sizes that are both known and differ.
Clash(x, y) == x # 0 /\ y # 0 /\ x # y

\* C7: InferShape never changes a size that is known on entry, it only fills
\* in unknown ones, and known shapes that contradict each other or the
\* kind's rule make it throw instead of returning.
C7_InferShapeMonotonic ==
  (pc = "done" /\ method = "InferShape") =>
     LET data0   == args.in_shape[1]
         weight0 == args.in_shape[2]
         out0    == args.out_shape[1]
         before  == <<data0, weight0, out0>>
         after   == <<result.in_shape[1], result.in_shape[2], result.out_shape[1]>>
     IN  /\ \A s \in 1..3, j \in 1..2 :
               Dim(before[s], j) # 0 => Dim(after[s], j) = Dim(before[s], j)
         /\ \A s \in 1..3 : Len(before[s]) # 0 => Len(after[s]) # 0
         /\ (\/ Clash(Dim(data0, 1), Dim(out0, 1))
             \/ Clash(Dim(data0, 2), Dim(weight0, 1))
             \/ Clash(Dim(weight0, 2), Dim(out0, 2))
             \/ Clash(Dim(weight0, 2), kind.n)
             \/ Clash(Dim(out0, 2), kind.n)) <=> result.thrown
         /\ result.thrown => ~result.ok

\* C7 witness: an unknown weight shape and an unknown output size were
\* filled in from a known data shape, the known sizes kept.
C7_Witness ==
  /\ pc = "done" /\ method = "InferShape" /\ kind.n = 2
  /\ args.in_shape = << <<2, 1>>, << >> >> /\ args.out_shape = << <<0, 2>> >>
  /\ result.ok /\ result.in_shape = << <<2, 1>>, <<1, 2>> >>
  /\ result.out_shape = << <<2, 2>> >>

\* C8: BackwardInputs hands each role's index list to the parameter of
\* DeclareBackwardDependency of the same role, so that the documented
\* override {out_grad[0], in_data[0], in_data[1]} makes it return the
\* caller's [out_grad[0], in_data[0], in_data[1]] (stated for the calls in
\* which no vector is read outside its size).
C8_RolesReachTheirParameters ==
  /\ (method = "BackwardInputs" /\ pc \in {"select", "done"} /\ ~oob) =>
        /\ dep_args.out_grad = out_grad_idx
        /\ dep_args.in_data = in_data_idx
        /\ dep_args.out_data = out_data_idx
  /\ (BackwardInputsReturned /\ kind = DocumentedKind /\ ~oob
        /\ Len(out_grad) >= 1 /\ Len(in_data) >= 2) =>
        ret = <<At(out_grad, 0), At(in_data, 0), At(in_data, 1)>>

\* C9: BackwardInputs reads no vector outside its size while it builds the
\* flattened vector, whatever the three lengths, and every index the default
\* DeclareBackwardDependency returns is a position of the flattened vector.
C9_NoReadOutside ==
  /\ (method = "BackwardInputs"
        /\ pc \in {"in_data_loop", "out_data_loop", "out_grad_loop", "declare"})
        => ~oob
  /\ (method = "BackwardInputs" /\ kind = BaseKind /\ pc \in {"select", "done"})
        => /\ ~oob
           /\ \A k \in 1..Len(ret_idx) : InRange(all_vec, ret_idx[k])

\* The indices first, first + 1, ..., first + n - 1.
Run(first, n) == [k \in 1..n |-> first + k - 1]

\* C10: the flattened indices are 0..n-1, in_data first, then out_data, then
\* out_grad, so the three index lists are disjoint and duplicate-free; the
\* result has the length and order of DeclareBackwardDependency's result,
\* its k-th element being the flattened-vector entry at the k-th index.
C10_ContiguousIndicesAndSelection ==
  (method = "BackwardInputs" /\ pc # "crashed") =>
     /\ Len(all_vec) = cnt
     /\ (in_data_idx \o out_data_idx) \o out_grad_idx = Run(0, cnt)
     /\ pc \in {"declare", "select", "done"} =>
           /\ cnt = FlatLen
           /\ in_data_idx = Run(0, Len(in_data))
           /\ out_data_idx = Run(Len(in_data), Len(out_data))
           /\ out_grad_idx = Run(Len(in_data) + Len(out_data), Len(out_grad))
     /\ pc = "done" =>
           /\ Len(ret) = Len(ret_idx)
           /\ \A k \in 1..Len(ret_idx) :
                 InRange(all_vec, ret_idx[k]) => ret[k] = At(all_vec, ret_idx[k])

\* C10 witness: a declared list that repeats an out_data index, out of
\* order with an in_data index, was selected from all three roles' entries.
C10_Witness ==
  /\ BackwardInputsReturned /\ kind = SubsetKind
  /\ in_data = <<"a", "b">> /\ out_data = <<"c">> /\ out_grad = <<"d">>
  /\ ret_idx = <<2, 2>> /\ ret = <<"c", "c">>
  /\ in_data_idx = <<0, 1>> /\ out_data_idx = <<2>> /\ out_grad_idx = <<3>>

====
